---------------------------- MODULE Spec2Model ----------------------------
(***************************************************************************)
(* Model of SQL.py, the Skyrim weapon database script.                     *)
(*                                                                         *)
(* The script is one straight-line program: it opens SkyrimWeaponsDB.db,   *)
(* creates six tables, inserts the seed rows (each insert followed by      *)
(* connect.commit()), applies five patches (each followed by the bare      *)
(* expression `connect.commit`, which is not a call) and prints seven      *)
(* reports.  The store is modelled twice: `disk` is what is committed to   *)
(* the file, `db` is what the run's own connection sees (committed rows    *)
(* plus the changes of its open transaction).                              *)
(*                                                                         *)
(* Representation of values: SQL NULL / Python None is the empty tuple     *)
(* None and a non-null value v of a nullable column is Some(v) = <<v>>.    *)
(* Decimal columns are kept exactly as scaled integers: Type.Speed,        *)
(* Type.Stagger and Type.Reach in hundredths, Material.Weight in tenths,   *)
(* Material.Speed in ten-thousandths (0.8125 is 8125, 0.75 is 7500).       *)
(***************************************************************************)
EXTENDS Integers, Sequences, FiniteSets, TLC

VARIABLES
  run,     \* number of the current invocation of the script (1 = first run)
  pc,      \* index in Program of the next statement to execute
  status,  \* "running", "exited" (end of script) or "fault" (unhandled exception)
  disk,    \* committed content of SkyrimWeaponsDB.db: table name -> rows in rowid order
  db,      \* the content as seen through `connect`: disk plus the open transaction
  out      \* result sets printed by the current run, in order

vars == <<run, pc, status, disk, db, out>>

\* Number of invocations of the script against the same database file.
MaxRuns == 3

None == <<>>

Some(v) == <<v>>

\* createType rows, src/SQL.py lines 187-204, in source order (one tuple per createType call).
TypeSeed ==
  <<
    <<"One-Handed Sword", Some(100), 75, Some(100)>>,  \* type_onehand_sword
    <<"One-Handed Axe", Some(90), 85, Some(100)>>,  \* type_onehand_axe
    <<"One-Handed Mace", Some(80), 100, Some(100)>>,  \* type_onehand_mace
    <<"One-Handed Dagger", Some(130), 0, Some(70)>>,  \* type_onehand_dagger
    <<"Two-Handed Sword", Some(70), 110, Some(130)>>,  \* type_twohand_sword
    <<"Two-Handed Axe", Some(70), 115, Some(130)>>,  \* type_twohand_axe
    <<"Two-Handed Mace", Some(60), 125, Some(130)>>,  \* type_twohand_mace
    <<"Bow", None, 0, None>>  \* type_bow
  >>

\* createMaterial rows, src/SQL.py lines 207-346, in source order (one tuple per createMaterial call).
MaterialSeed ==
  <<
    <<"Iron", 90, 7, 25, None, None>>,  \* material_iron_onehand_sword
    <<"Iron", 110, 8, 30, None, None>>,  \* material_iron_onehand_axe
    <<"Iron", 130, 9, 35, None, None>>,  \* material_iron_onehand_mace
    <<"Iron", 20, 4, 10, None, None>>,  \* material_iron_onehand_dagger
    <<"Iron", 160, 15, 50, None, None>>,  \* material_iron_twohand_sword
    <<"Iron", 200, 16, 55, None, None>>,  \* material_iron_twohand_axe
    <<"Iron", 240, 18, 60, None, None>>,  \* material_iron_twohand_mace
    <<"Steel", 100, 8, 45, None, Some("Steel Smithing")>>,  \* material_steel_onehand_sword
    <<"Steel", 120, 9, 55, None, Some("Steel Smithing")>>,  \* material_steel_onehand_axe
    <<"Steel", 140, 10, 65, None, Some("Steel Smithing")>>,  \* material_steel_onehand_mace
    <<"Steel", 20, 4, 10, None, Some("Steel Smithing")>>,  \* material_steel_onehand_dagger
    <<"Steel", 170, 17, 90, None, Some("Steel Smithing")>>,  \* material_steel_twohand_sword
    <<"Steel", 210, 18, 100, None, Some("Steel Smithing")>>,  \* material_steel_twohand_axe
    <<"Steel", 250, 20, 110, None, Some("Steel Smithing")>>,  \* material_steel_twohand_mace
    <<"Orcish", 110, 9, 75, None, Some("Orcish Smithing")>>,  \* material_orcish_onehand_sword
    <<"Orcish", 130, 10, 90, None, Some("Orcish Smithing")>>,  \* material_orcish_onehand_axe
    <<"Orcish", 150, 11, 105, None, Some("Orcish Smithing")>>,  \* material_orcish_onehand_mace
    <<"Orcish", 30, 6, 30, None, Some("Orcish Smithing")>>,  \* material_orcish_onehand_dagger
    <<"Orcish", 180, 18, 75, None, Some("Orcish Smithing")>>,  \* material_orcish_twohand_sword
    <<"Orcish", 250, 19, 165, None, Some("Orcish Smithing")>>,  \* material_orcish_twohand_axe
    <<"Orcish", 260, 21, 180, None, Some("Orcish Smithing")>>,  \* material_orcish_twohand_mace
    <<"Orcish", 90, 10, 150, Some(8125), Some("Orcish Smithing")>>,  \* material_orcish_bow
    <<"Dwarven", 120, 10, 150, None, Some("Dwarven Smithing")>>,  \* material_dwarven_onehand_sword
    <<"Dwarven", 140, 11, 165, None, Some("Dwarven Smithing")>>,  \* material_dwarven_onehand_axe
    <<"Dwarven", 160, 12, 190, None, Some("Dwarven Smithing")>>,  \* material_dwarven_onehand_mace
    <<"Dwarven", 35, 7, 55, None, Some("Dwarven Smithing")>>,  \* material_dwarven_onehand_dagger
    <<"Dwarven", 190, 19, 270, None, Some("Dwarven Smithing")>>,  \* material_dwarven_twohand_sword
    <<"Dwarven", 230, 20, 300, None, Some("Dwarven Smithing")>>,  \* material_dwarven_twohand_axe
    <<"Dwarven", 270, 22, 325, None, Some("Dwarven Smithing")>>,  \* material_dwarven_twohand_mace
    <<"Dwarven", 100, 12, 270, Some(7500), Some("Dwarven Smithing")>>,  \* material_dwarven_bow
    <<"Elven", 130, 11, 235, None, Some("Elven Smithing")>>,  \* material_elven_onehand_sword
    <<"Elven", 150, 12, 280, None, Some("Elven Smithing")>>,  \* material_elven_onehand_axe
    <<"Elven", 170, 13, 330, None, Some("Elven Smithing")>>,  \* material_elven_onehand_mace
    <<"Elven", 40, 8, 95, None, Some("Elven Smithing")>>,  \* material_elven_onehand_dagger
    <<"Elven", 200, 20, 470, None, Some("Elven Smithing")>>,  \* material_elven_twohand_sword
    <<"Elven", 240, 21, 520, None, Some("Elven Smithing")>>,  \* material_elven_twohand_axe
    <<"Elven", 280, 23, 565, None, Some("Elven Smithing")>>,  \* material_elven_twohand_mace
    <<"Elven", 120, 13, 470, Some(6875), Some("Elven Smithing")>>,  \* material_elven_bow
    <<"Glass", 140, 12, 410, None, Some("Glass Smithing")>>,  \* material_glass_onehand_sword
    <<"Glass", 160, 13, 490, None, Some("Glass Smithing")>>,  \* material_glass_onehand_axe
    <<"Glass", 180, 14, 575, None, Some("Glass Smithing")>>,  \* material_glass_onehand_mace
    <<"Glass", 45, 9, 165, None, Some("Glass Smithing")>>,  \* material_glass_onehand_dagger
    <<"Glass", 220, 21, 820, None, Some("Glass Smithing")>>,  \* material_glass_twohand_sword
    <<"Glass", 250, 22, 900, None, Some("Glass Smithing")>>,  \* material_glass_twohand_axe
    <<"Glass", 290, 24, 985, None, Some("Glass Smithing")>>,  \* material_glass_twohand_mace
    <<"Glass", 140, 15, 820, Some(6250), Some("Glass Smithing")>>,  \* material_glass_bow
    <<"Ebony", 150, 13, 720, None, Some("Ebony Smithing")>>,  \* material_ebony_onehand_sword
    <<"Ebony", 170, 15, 865, None, Some("Ebony Smithing")>>,  \* material_ebony_onehand_axe
    <<"Ebony", 190, 16, 1000, None, Some("Ebony Smithing")>>,  \* material_ebony_onehand_mace
    <<"Ebony", 50, 10, 290, None, Some("Ebony Smithing")>>,  \* material_ebony_onehand_dagger
    <<"Ebony", 220, 22, 1440, None, Some("Ebony Smithing")>>,  \* material_ebony_twohand_sword
    <<"Ebony", 260, 23, 1585, None, Some("Ebony Smithing")>>,  \* material_ebony_twohand_axe
    <<"Ebony", 300, 25, 1725, None, Some("Ebony Smithing")>>,  \* material_ebony_twohand_mace
    <<"Ebony", 160, 17, 1800, Some(5625), Some("Ebony Smithing")>>,  \* material_ebony_bow
    <<"Daedric", 160, 14, 1250, None, Some("Daedric Smithing")>>,  \* material_daedric_onehand_sword
    <<"Daedric", 180, 15, 1500, None, Some("Daedric Smithing")>>,  \* material_daedric_onehand_axe
    <<"Daedric", 200, 16, 1750, None, Some("Daedric Smithing")>>,  \* material_daedric_onehand_mace
    <<"Daedric", 60, 11, 500, None, Some("Daedric Smithing")>>,  \* material_daedric_onehand_dagger
    <<"Daedric", 230, 24, 2500, None, Some("Daedric Smithing")>>,  \* material_daedric_twohand_sword
    <<"Daedric", 270, 25, 2750, None, Some("Daedric Smithing")>>,  \* material_daedric_twohand_axe
    <<"Daedric", 310, 27, 4000, None, Some("Daedric Smithing")>>,  \* material_daedric_twohand_mace
    <<"Daedric", 180, 19, 2500, Some(5000), Some("Daedric Smithing")>>,  \* material_daedric_bow
    <<"Long", 50, 6, 30, Some(10000), None>>,  \* material_long_bow
    <<"Hunting", 70, 7, 50, Some(9375), None>>  \* material_hunting_bow
  >>

\* createWeapon rows, src/SQL.py lines 350-491, in source order (one tuple per createWeapon call).
WeaponSeed ==
  <<
    <<"00012eb7", "Iron Sword", "One-Handed Sword", "Iron">>,  \* weapon_iron_onehand_sword
    <<"00013790", "Iron War Axe", "One-Handed Axe", "Iron">>,  \* weapon_iron_onehand_axe
    <<"00013982", "Iron Mace", "One-Handed Mace", "Iron">>,  \* weapon_iron_onehand_mace
    <<"0001397e", "Iron Dagger", "One-Handed Dagger", "Iron">>,  \* weapon_iron_onehand_dagger
    <<"0001359d", "Iron Greatsword", "Two-Handed Sword", "Iron">>,  \* weapon_iron_twohand_sword
    <<"00013980", "Iron Battleaxe", "Two-Handed Axe", "Iron">>,  \* weapon_iron_twohand_axe
    <<"00013981", "Iron Warhammer", "Two-Handed Mace", "Iron">>,  \* weapon_iron_twohand_mace
    <<"00013989", "Steel Sword", "One-Handed Sword", "Steel">>,  \* weapon_steel_onehand_sword
    <<"00013983", "Steel War Axe", "One-Handed Axe", "Steel">>,  \* weapon_steel_onehand_axe
    <<"00013988", "Steel Mace", "One-Handed Mace", "Steel">>,  \* weapon_steel_onehand_mace
    <<"00013986", "Steel Dagger", "One-Handed Dagger", "Steel">>,  \* weapon_steel_onehand_dagger
    <<"00013987", "Steel Greatsword", "Two-Handed Sword", "Steel">>,  \* weapon_steel_twohand_sword
    <<"00013984", "Steel Battleaxe", "Two-Handed Axe", "Steel">>,  \* weapon_steel_twohand_axe
    <<"0001398a", "Steel Warhammer", "Two-Handed Mace", "Steel">>,  \* weapon_steel_twohand_mace
    <<"00013991", "Orcish Sword", "One-Handed Sword", "Orcish">>,  \* weapon_orcish_onehand_sword
    <<"0001398b", "Orcish War Axe", "One-Handed Axe", "Orcish">>,  \* weapon_orcish_onehand_axe
    <<"00013990", "Orcish Mace", "One-Handed Mace", "Orcish">>,  \* weapon_orcish_onehand_mace
    <<"0001398e", "Orcish Dagger", "One-Handed Dagger", "Orcish">>,  \* weapon_orcish_onehand_dagger
    <<"0001398f", "Orcish Greatsword", "Two-Handed Sword", "Orcish">>,  \* weapon_orcish_twohand_sword
    <<"0001398c", "Orcish Battleaxe", "Two-Handed Axe", "Orcish">>,  \* weapon_orcish_twohand_axe
    <<"00013992", "Orcish Warhammer", "Two-Handed Mace", "Orcish">>,  \* weapon_orcish_twohand_mace
    <<"00013999", "Dwarven Sword", "One-Handed Sword", "Dwarven">>,  \* weapon_dwarven_onehand_sword
    <<"00013993", "Dwarven War Axe", "One-Handed Axe", "Dwarven">>,  \* weapon_dwarven_onehand_axe
    <<"00013998", "Dwarven Mace", "One-Handed Mace", "Dwarven">>,  \* weapon_dwarven_onehand_mace
    <<"00013996", "Dwarven Dagger", "One-Handed Dagger", "Dwarven">>,  \* weapon_dwarven_onehand_dagger
    <<"00013997", "Dwarven Greatsword", "Two-Handed Sword", "Dwarven">>,  \* weapon_dwarven_twohand_sword
    <<"00013994", "Dwarven Battleaxe", "Two-Handed Axe", "Dwarven">>,  \* weapon_dwarven_twohand_axe
    <<"0001399a", "Dwarven Warhammer", "Two-Handed Mace", "Dwarven">>,  \* weapon_dwarven_twohand_mace
    <<"000139a1", "Elven Sword", "One-Handed Sword", "Elven">>,  \* weapon_elven_onehand_sword
    <<"0001399b", "Elven War Axe", "One-Handed Axe", "Elven">>,  \* weapon_elven_onehand_axe
    <<"000139a0", "Elven Mace", "One-Handed Mace", "Elven">>,  \* weapon_elven_onehand_mace
    <<"0001399e", "Elven Dagger", "One-Handed Dagger", "Elven">>,  \* weapon_elven_onehand_dagger
    <<"0001399f", "Elven Greatsword", "Two-Handed Sword", "Elven">>,  \* weapon_elven_twohand_sword
    <<"0001399c", "Elven Battleaxe", "Two-Handed Axe", "Elven">>,  \* weapon_elven_twohand_axe
    <<"000139a2", "Elven Warhammer", "Two-Handed Mace", "Elven">>,  \* weapon_elven_twohand_mace
    <<"000139a9", "Glass Sword", "One-Handed Sword", "Glass">>,  \* weapon_glass_onehand_sword
    <<"000139a3", "Glass War Axe", "One-Handed Axe", "Glass">>,  \* weapon_glass_onehand_axe
    <<"000139a8", "Glass Mace", "One-Handed Mace", "Glass">>,  \* weapon_glass_onehand_mace
    <<"000139a6", "Glass Dagger", "One-Handed Dagger", "Glass">>,  \* weapon_glass_onehand_dagger
    <<"000139a7", "Glass Greatsword", "Two-Handed Sword", "Glass">>,  \* weapon_glass_twohand_sword
    <<"000139a4", "Glass Battleaxe", "Two-Handed Axe", "Glass">>,  \* weapon_glass_twohand_axe
    <<"000139aa", "Glass Warhammer", "Two-Handed Mace", "Glass">>,  \* weapon_glass_twohand_mace
    <<"000139b1", "Ebony Sword", "One-Handed Sword", "Ebony">>,  \* weapon_ebony_onehand_sword
    <<"000139ab", "Ebony War Axe", "One-Handed Axe", "Ebony">>,  \* weapon_ebony_onehand_axe
    <<"000139b0", "Ebony Mace", "One-Handed Mace", "Ebony">>,  \* weapon_ebony_onehand_mace
    <<"000139ae", "Ebony Dagger", "One-Handed Dagger", "Ebony">>,  \* weapon_ebony_onehand_dagger
    <<"000139af", "Ebony Greatsword", "Two-Handed Sword", "Ebony">>,  \* weapon_ebony_twohand_sword
    <<"000139ac", "Ebony Battleaxe", "Two-Handed Axe", "Ebony">>,  \* weapon_ebony_twohand_axe
    <<"000139b2", "Ebony Warhammer", "Two-Handed Mace", "Ebony">>,  \* weapon_ebony_twohand_mace
    <<"000139b9", "Daedric Sword", "One-Handed Sword", "Daedric">>,  \* weapon_daedric_onehand_sword
    <<"000139b3", "Daedric War Axe", "One-Handed Axe", "Daedric">>,  \* weapon_daedric_onehand_axe
    <<"000139b8", "Daedric Mace", "One-Handed Axe", "Daedric">>,  \* weapon_daedric_onehand_mace
    <<"000139b6", "Daedric Dagger", "One-Handed Dagger", "Daedric">>,  \* weapon_daedric_onehand_dagger
    <<"000139b7", "Daedric Greatsword", "Two-Handed Sword", "Daedric">>,  \* weapon_daedric_twohand_sword
    <<"000139b4", "Daedric Battleaxe", "Two-Handed Axe", "Daedric">>,  \* weapon_daedric_twohand_axe
    <<"000139ba", "Daedric Warhammer", "Two-Handed Mace", "Daedric">>,  \* weapon_daedric_twohand_mace
    <<"0003b562", "Long Bow", "Archery", "Long">>,  \* weapon_long_bow
    <<"00013985", "Hunting Bow", "Archery", "Hunting">>,  \* weapon_hunting_bow
    <<"00000000", "Iron Bow", "Archery", "Iron">>,  \* weapon_iron_bow
    <<"01010101", "Steel Bow", "Archery", "Steel">>,  \* weapon_steel_bow
    <<"0001398d", "Orcish Bow", "Archery", "Orcish">>,  \* weapon_orcish_bow
    <<"00013995", "Dwarven Bow", "Archery", "Dwarven">>,  \* weapon_dwarven_bow
    <<"0001399d", "Elven Bow", "Archery", "Elven">>,  \* weapon_elven_bow
    <<"000139a5", "Glass Bow", "Archery", "Glass">>,  \* weapon_glass_bow
    <<"000139ad", "Ebony Bow", "Archery", "Ebony">>,  \* weapon_ebony_bow
    <<"000139b5", "Daedric Bow", "Archery", "Daedric">>  \* weapon_daedric_bow
  >>

\* createForgeability rows, src/SQL.py lines 494-507, in source order (one tuple per createForgeability call).
ForgeabilitySeed ==
  <<
    <<2, "Steel Smithing">>,  \* steel_forgeability
    <<6, "Orcish Smithing">>,  \* orcish_forgeability
    <<12, "Dwarven Smithing">>,  \* dwarven_forgeability
    <<19, "Elven Smithing">>,  \* elven_forgeability
    <<27, "Glass Smithing">>,  \* glass_forgeability
    <<36, "Ebony Smithing">>,  \* ebony_forgeability
    <<46, "Daedric Smithing">>  \* daedric_forgeability
  >>

\* createEnchanting rows, src/SQL.py lines 510-533, in source order (one tuple per createEnchanting call).
EnchantingSeed ==
  <<
    <<"Banish", "Sends conjured Daedra back to Oblivion", "One-Handed Sword">>,  \* banish_enchantment
    <<"Chaos", "Randomized frost, fire, sparks damage", "One-Handed Axe">>,  \* chaos_enchantment
    <<"Frost", "Frost damage and drain stamina", "One-Handed Mace">>,  \* frost_enchantment
    <<"Fear", "People/creatures at a certain level flee", "One-Handed Dagger">>,  \* fear_enchantment
    <<"Fire", "Fire damage and setting targets on fire", "Two-Handed Sword">>,  \* fire_enchantment
    <<"Paralyze", "Paralyzes people/creatures for a certain time", "Two-Handed Axe">>,  \* paralyze_enchantment
    <<"Shock", "Shock damage and drain magicka", "Two-Handed Mace">>,  \* shock_enchantment
    <<"Water", "Water damage and draining magicka", "Bow">>,  \* water_enchantment
    <<"HealthDrain", "Drains health from people/creatures at a certain rate", "One-Handed Sword">>,  \* health_drain_enchantment
    <<"StaminaDrain", "Drains stamina from people/creatures at a certain rate", "One-Handed Axe">>,  \* stamina_drain_enchantment
    <<"MagickaDrain", "Drains magicka from people/creatures at a certain rate", "One-Handed Mace">>,  \* magicka_drain_enchantment
    <<"SoulTrap", "Upon death, the persons/creatures soul is absorbed into a soul gem", "One-Handed Dagger">>  \* soul_trap_enchantment
  >>

\* createEnchantedWith rows, src/SQL.py lines 536-539, in source order (one tuple per createEnchantedWith call).
EnchantedWithSeed ==
  <<
    <<"00012eb7", "HealthDrain">>,  \* iron_sword_of_drain_health
    <<"0001398d", "Water">>  \* orcish_bow_of_water
  >>

\* createMaterial rows, src/SQL.py lines 548-580, in source order (one tuple per createMaterial call).
DragonbornMaterialSeed ==
  <<
    <<"Nordic", 120, 11, 290, None, Some("Advanced Armors")>>,  \* material_nordic_onehand_sword
    <<"Nordic", 140, 12, 350, None, Some("Advanced Armors")>>,  \* material_nordic_onehand_axe
    <<"Nordic", 160, 13, 410, None, Some("Advanced Armors")>>,  \* material_nordic_onehand_mace
    <<"Nordic", 35, 8, 115, None, Some("Advanced Armors")>>,  \* material_nordic_onehand_dagger
    <<"Nordic", 190, 20, 585, None, Some("Advanced Armors")>>,  \* material_nordic_twohand_sword
    <<"Nordic", 230, 21, 650, None, Some("Advanced Armors")>>,  \* material_nordic_twohand_axe
    <<"Nordic", 270, 23, 700, None, Some("Advanced Armors")>>,  \* material_nordic_twohand_mace
    <<"Nordic", 110, 13, 580, Some(6875), Some("Advanced Armors")>>,  \* material_nordic_bow
    <<"Stalhrim", 140, 13, 985, None, Some("Ebony Smithing")>>,  \* material_stalhrim_onehand_sword
    <<"Stalhrim", 160, 15, 1180, None, Some("Ebony Smithing")>>,  \* material_stalhrim_onehand_axe
    <<"Stalhrim", 180, 16, 1375, None, Some("Ebony Smithing")>>,  \* material_stalhrim_onehand_mace
    <<"Stalhrim", 45, 10, 395, None, Some("Ebony Smithing")>>,  \* material_stalhrim_onehand_dagger
    <<"Stalhrim", 210, 23, 1970, None, Some("Ebony Smithing")>>,  \* material_stalhrim_twohand_sword
    <<"Stalhrim", 250, 24, 2150, None, Some("Ebony Smithing")>>,  \* material_stalhrim_twohand_axe
    <<"Stalhrim", 290, 26, 2850, None, Some("Ebony Smithing")>>,  \* material_stalhrim_twohand_mace
    <<"Stalhrim", 150, 17, 1800, Some(5625), Some("Ebony Smithing")>>  \* material_stalhrim_bow
  >>

\* createWeapon rows, src/SQL.py lines 584-616, in source order (one tuple per createWeapon call).
DragonbornWeaponSeed ==
  <<
    <<"xx01cdb1", "Nordic Sword", "One-Handed Sword", "Nordic">>,  \* weapon_nordic_onehand_sword
    <<"xx01cdb2", "Nordic War Axe", "One-Handed Axe", "Nordic">>,  \* weapon_nordic_onehand_axe
    <<"xx01cdb0", "Nordic Mace", "One-Handed Mace", "Nordic">>,  \* weapon_nordic_onehand_mace
    <<"xx01cdae", "Nordic Dagger", "One-Handed Dagger", "Nordic">>,  \* weapon_nordic_onehand_dagger
    <<"xx01cdaf", "Nordic Greatsword", "Two-Handed Sword", "Nordic">>,  \* weapon_nordic_twohand_sword
    <<"xx01cdad", "Nordic Battleaxe", "Two-Handed Axe", "Nordic">>,  \* weapon_nordic_twohand_axe
    <<"xx01cdb3", "Nordic Warhammer", "Two-Handed Mace", "Nordic">>,  \* weapon_nordic_twohand_mace
    <<"xx026232", "Nordic Bow", "Archery", "Nordic">>,  \* weapon_nordic_bow
    <<"xx01cdb8", "Stalhrim Sword", "One-Handed Sword", "Stalhrim">>,  \* weapon_stalhrim_onehand_sword
    <<"xx01cdb9", "Stalhrim War Axe", "One-Handed Axe", "Stalhrim">>,  \* weapon_stalhrim_onehand_axe
    <<"xx01cdb7", "Stalhrim Mace", "One-Handed Mace", "Stalhrim">>,  \* weapon_stalhrim_onehand_mace
    <<"xx01cdb5", "Stalhrim Dagger", "One-Handed Dagger", "Stalhrim">>,  \* weapon_stalhrim_onehand_dagger
    <<"xx01cdb6", "Stalhrim Greatsword", "Two-Handed Sword", "Stalhrim">>,  \* weapon_stalhrim_twohand_sword
    <<"xx01cdb4", "Stalhrim Battleaxe", "Two-Handed Axe", "Stalhrim">>,  \* weapon_stalhrim_twohand_axe
    <<"xx01cdba", "Stalhrim Warhammer", "Two-Handed Mace", "Stalhrim">>,  \* weapon_stalhrim_twohand_mace
    <<"xx026231", "Stalhrim Bow", "Archery", "Stalhrim">>  \* weapon_stalhrim_bow
  >>

\* Variant: the perk name of the batch is misspelt.
DragonbornForgeabilityMisspelt ==
  <<
    <<18, "Advanced Armor">>
  >>

\* createForgeability rows, src/SQL.py lines 619-620, in source order (one tuple per createForgeability call).
DragonbornForgeabilitySeed ==
  <<
    <<18, "Advanced Armors">>  \* advanced_armors_forgeability
  >>

\* createMaterial rows, src/SQL.py lines 626-641, in source order (one tuple per createMaterial call).
DawnguardMaterialSeed ==
  <<
    <<"Dragonbone", 190, 15, 1500, None, Some("Dragon Armor")>>,  \* material_dragonbone_onehand_sword
    <<"Dragonbone", 210, 16, 1700, None, Some("Dragon Armor")>>,  \* material_dragonbone_onehand_axe
    <<"Dragonbone", 220, 17, 2000, None, Some("Dragon Armor")>>,  \* material_dragonbone_onehand_mace
    <<"Dragonbone", 65, 12, 600, None, Some("Dragon Armor")>>,  \* material_dragonbone_onehand_dagger
    <<"Dragonbone", 270, 25, 2725, None, Some("Dragon Armor")>>,  \* material_dragonbone_twohand_sword
    <<"Dragonbone", 300, 26, 3000, None, Some("Dragon Armor")>>,  \* material_dragonbone_twohand_axe
    <<"Dragonbone", 330, 28, 4275, None, Some("Dragon Armor")>>,  \* material_dragonbone_twohand_mace
    <<"Dragonbone", 200, 20, 2760, Some(7500), Some("Dragon Armor")>>  \* material_dragonbone_bow
  >>

\* createWeapon rows, src/SQL.py lines 644-659, in source order (one tuple per createWeapon call).
DawnguardWeaponSeed ==
  <<
    <<"xx014fce", "Dragonbone Sword", "One-Handed Sword", "Dragonbone">>,  \* weapon_dragonbone_onehand_sword
    <<"xx014fcf", "Dragonbone War Axe", "One-Handed Axe", "Dragonbone">>,  \* weapon_dragonbone_onehand_axe
    <<"xx014fcd", "Dragonbone Mace", "One-Handed Mace", "Dragonbone">>,  \* weapon_dragonbone_onehand_mace
    <<"xx014fcb", "Dragonbone Dagger", "One-Handed Dagger", "Dragonbone">>,  \* weapon_dragonbone_onehand_dagger
    <<"xx014fcc", "Dragonbone Greatsword", "Two-Handed Sword", "Dragonbone">>,  \* weapon_dragonbone_twohand_sword
    <<"xx014fc3", "Dragonbone Battleaxe", "Two-Handed Axe", "Dragonbone">>,  \* weapon_dragonbone_twohand_axe
    <<"xx014fd0", "Dragonbone Warhammer", "Two-Handed Mace", "Dragonbone">>,  \* weapon_dragonbone_twohand_mace
    <<"xx0176f1", "Dragonbone Bow", "Archery", "Dragonbone">>  \* weapon_dragonbone_bow
  >>

\* createForgeability rows, src/SQL.py lines 662-663, in source order (one tuple per createForgeability call).
DawnguardForgeabilitySeed ==
  <<
    <<100, "Dragon Armor">>  \* dragon_armor_forgeability
  >>

-----------------------------------------------------------------------------
(* The program text as a sequence of statements.                           *)

Stmt(op, arg, batch) == [op |-> op, arg |-> arg, batch |-> batch]

Inserts(op, seed, batch) == [i \in 1..Len(seed) |-> Stmt(op, seed[i], batch)]

\* The six CREATE TABLE IF NOT EXISTS statements, in source order.
SchemaDDL ==
  << "Weapon", "Type", "Material", "Forgeability", "Enchanting", "EnchantedWith" >>

\* Base game data: types, materials, weapons, forgeability, enchantments,
\* enchanted weapons.
BaseSeed ==
     Inserts("createType", TypeSeed, "base")
  \o Inserts("createMaterial", MaterialSeed, "base")
  \o Inserts("createWeapon", WeaponSeed, "base")
  \o Inserts("createForgeability", ForgeabilitySeed, "base")
  \o Inserts("createEnchanting", EnchantingSeed, "base")
  \o Inserts("createEnchantedWith", EnchantedWithSeed, "base")

addDragonbornDLC ==
     Inserts("createMaterial", DragonbornMaterialSeed, "Dragonborn")
  \o Inserts("createWeapon", DragonbornWeaponSeed, "Dragonborn")
  \o Inserts("createForgeability", DragonbornForgeabilitySeed, "Dragonborn")

\* Variant: the weapons of the batch are inserted before its materials.
addDawngaurdDLCWeaponsFirst ==
     Inserts("createWeapon", DawnguardWeaponSeed, "Dawnguard")
  \o Inserts("createMaterial", DawnguardMaterialSeed, "Dawnguard")
  \o Inserts("createForgeability", DawnguardForgeabilitySeed, "Dawnguard")

addDawngaurdDLC ==
     Inserts("createMaterial", DawnguardMaterialSeed, "Dawnguard")
  \o Inserts("createWeapon", DawnguardWeaponSeed, "Dawnguard")
  \o Inserts("createForgeability", DawnguardForgeabilitySeed, "Dawnguard")

\* Variant: the mace correction is called before the axe correction.
PatchesReordered ==
  << Stmt("updateTwoHandedSwordSpeed", <<75, "Two-Handed Sword">>, "patch"),
     Stmt("updateEbonyOneHandedMace", <<15, "Ebony", 16>>, "patch"),
     Stmt("updateEbonyOneHandedAxe", <<14, "Ebony", 15>>, "patch"),
     Stmt("deleteIronBow", <<"Iron Bow">>, "patch"),
     Stmt("deleteSteelBow", <<"Steel Bow">>, "patch") >>

\* The five patch calls with the parameter tuples bound at the call sites.
Patches ==
  << Stmt("updateTwoHandedSwordSpeed", <<75, "Two-Handed Sword">>, "patch"),
     Stmt("updateEbonyOneHandedAxe", <<14, "Ebony", 15>>, "patch"),
     Stmt("updateEbonyOneHandedMace", <<15, "Ebony", 16>>, "patch"),
     Stmt("deleteIronBow", <<"Iron Bow">>, "patch"),
     Stmt("deleteSteelBow", <<"Steel Bow">>, "patch") >>

\* The seven report calls that end the script.
Reports ==
  << Stmt("selectIronWeapons", <<>>, "report"),
     Stmt("selectBowsBySpeed", <<>>, "report"),
     Stmt("selectEnchantedWeapons", <<>>, "report"),
     Stmt("selectForgeabilityPerkLevel", <<>>, "report"),
     Stmt("selectAllDwarvenAxes", <<>>, "report"),
     Stmt("selectEnchantmentsForWarhammers", <<>>, "report"),
     Stmt("selectHighestDamage", <<>>, "report") >>

Program ==
     Inserts("CREATE TABLE", [i \in 1..Len(SchemaDDL) |-> <<SchemaDDL[i]>>], "schema")
  \o BaseSeed
  \o addDragonbornDLC
  \o addDawngaurdDLC
  \o Patches
  \o Reports

-----------------------------------------------------------------------------
(* Helpers over tables.                                                    *)

EmptyStore == [t \in {} |-> <<>>]

Map(s, F(_)) == [i \in 1..Len(s) |-> F(s[i])]

Rows(store, t) == IF t \in DOMAIN store THEN store[t] ELSE <<>>

\* INSERT appends a row at the next rowid.
InsertRow(store, t, row) == [store EXCEPT ![t] = Append(@, row)]

\* The statement at pc, while the script is running.
AtOp(op) == status = "running" /\ pc \in 1..Len(Program) /\ Program[pc].op = op

Display(title, rows) == Append(out, [title |-> title, rows |-> rows])

-----------------------------------------------------------------------------
(* Schema creation.                                                        *)

\* Variant: the table is dropped and created again.
CreateTableReplace(store, t) ==
  [x \in DOMAIN store \cup {t} |-> IF x = t THEN <<>> ELSE store[x]]

\* CREATE TABLE IF NOT EXISTS t: adds an empty table unless t exists.
CreateTableIfNotExists(store, t) ==
  IF t \in DOMAIN store
  THEN store
  ELSE [x \in DOMAIN store \cup {t} |-> IF x = t THEN <<>> ELSE store[x]]

\* c.execute('''CREATE TABLE IF NOT EXISTS ...''').  No transaction is open
\* when the DDL runs, so the statement commits itself.
CreateTable ==
  /\ AtOp("CREATE TABLE")
  /\ db' = CreateTableIfNotExists(db, Program[pc].arg[1])
  /\ disk' = IF db = disk THEN db' ELSE disk
  /\ pc' = pc + 1
  /\ UNCHANGED <<run, status, out>>

-----------------------------------------------------------------------------
(* Data creation methods: one INSERT followed by connect.commit().         *)

WeaponRow(weapon) ==
  [ID |-> weapon[1], Name |-> weapon[2], Type |-> weapon[3], Material |-> weapon[4]]

TypeRow(type) ==
  [Name |-> type[1], Speed |-> type[2], Stagger |-> type[3], Reach |-> type[4]]

MaterialRow(material) ==
  [Name |-> material[1], Weight |-> material[2], Damage |-> material[3],
   Value |-> material[4], Speed |-> material[5], Forgeability |-> material[6]]

ForgeabilityRow(forgeability) ==
  [Level |-> forgeability[1], Perk_Name |-> forgeability[2]]

EnchantingRow(enchanting) ==
  [Name |-> enchanting[1], Effect |-> enchanting[2], Weapon |-> enchanting[3]]

EnchantedWithRow(enchantedwith) ==
  [ID |-> enchantedwith[1], EnchantmentName |-> enchantedwith[2]]

\* Variant: the Weapon table declares no uniqueness on ID.
NoUniqueCheck(rows, id) == FALSE

\* "ID" TEXT NOT NULL UNIQUE, PRIMARY KEY("ID"): the insert is rejected when
\* a row with the same ID exists.
UniqueViolation(rows, id) == \E i \in 1..Len(rows) : rows[i].ID = id

\* Variant: the insert is not followed by a commit.
InsertWithoutCommit(t, row) ==
  /\ db' = InsertRow(db, t, row)
  /\ pc' = pc + 1
  /\ UNCHANGED <<run, status, disk, out>>

\* An INSERT that succeeds, then connect.commit().
InsertAndCommit(t, row) ==
  /\ db' = InsertRow(db, t, row)
  /\ disk' = db'
  /\ pc' = pc + 1
  /\ UNCHANGED <<run, status, out>>

\* Variant: the exception is swallowed and the script carries on.
AbortIgnored ==
  /\ pc' = pc + 1
  /\ UNCHANGED <<run, status, disk, db, out>>

\* sqlite3.IntegrityError is not caught anywhere: the process terminates at
\* this statement and the connection goes away with nothing committed.
Abort ==
  /\ status' = "fault"
  /\ db' = disk
  /\ UNCHANGED <<run, pc, disk, out>>

createWeapon ==
  /\ AtOp("createWeapon")
  /\ LET row == WeaponRow(Program[pc].arg) IN
       IF UniqueViolation(db["Weapon"], row.ID)
       THEN Abort
       ELSE InsertAndCommit("Weapon", row)

createType ==
  /\ AtOp("createType")
  /\ InsertAndCommit("Type", TypeRow(Program[pc].arg))

createMaterial ==
  /\ AtOp("createMaterial")
  /\ InsertAndCommit("Material", MaterialRow(Program[pc].arg))

createForgeability ==
  /\ AtOp("createForgeability")
  /\ InsertAndCommit("Forgeability", ForgeabilityRow(Program[pc].arg))

createEnchanting ==
  /\ AtOp("createEnchanting")
  /\ InsertAndCommit("Enchanting", EnchantingRow(Program[pc].arg))

createEnchantedWith ==
  /\ AtOp("createEnchantedWith")
  /\ InsertAndCommit("EnchantedWith", EnchantedWithRow(Program[pc].arg))

-----------------------------------------------------------------------------
(* Updates and deletions.  Each prints the rows selected before, executes  *)
(* the statement, evaluates `connect.commit` without calling it, and       *)
(* prints the rows selected after.  Nothing is written to disk.            *)

\* Variant: the UPDATE has no WHERE clause.
UpdateTypeSpeedAll(rows, update) ==
  Map(rows, LAMBDA r : [r EXCEPT !.Speed = Some(update[1])])

\* UPDATE Type SET Speed = ? WHERE Name = ?
UpdateTypeSpeed(rows, update) ==
  Map(rows, LAMBDA r : IF r.Name = update[2]
                       THEN [r EXCEPT !.Speed = Some(update[1])] ELSE r)

\* Variant: the Damage = ? condition of the WHERE clause is left out.
UpdateMaterialDamageByName(rows, update) ==
  Map(rows, LAMBDA r : IF r.Name = update[2]
                       THEN [r EXCEPT !.Damage = update[1]] ELSE r)

\* Variant: the Name = ? condition of the WHERE clause is left out.
UpdateMaterialDamageAnyName(rows, update) ==
  Map(rows, LAMBDA r : IF r.Damage = update[3]
                       THEN [r EXCEPT !.Damage = update[1]] ELSE r)

\* UPDATE material SET Damage = ? WHERE Name = ? AND Damage = ?
UpdateMaterialDamage(rows, update) ==
  Map(rows, LAMBDA r : IF r.Name = update[2] /\ r.Damage = update[3]
                       THEN [r EXCEPT !.Damage = update[1]] ELSE r)

\* Variant: the parameter is matched against the ID column.
DeleteWeaponByID(rows, deletion) ==
  SelectSeq(rows, LAMBDA r : r.ID # deletion[1])

\* Variant: the DELETE has no WHERE clause.
DeleteAllWeapons(rows, deletion) == <<>>

\* DELETE FROM weapon WHERE Name = ?
DeleteWeaponByName(rows, deletion) ==
  SelectSeq(rows, LAMBDA r : r.Name # deletion[1])

\* Variant: the Name = 'Ebony' condition of the SELECT is left out.
SelectAnyByDamage(rows, d) ==
  SelectSeq(rows, LAMBDA r : r.Damage = d)

\* SELECT * FROM Material WHERE Name = 'Ebony' AND Damage = d
SelectEbonyByDamage(rows, d) ==
  SelectSeq(rows, LAMBDA r : r.Name = "Ebony" /\ r.Damage = d)

\* SELECT * FROM t WHERE Name = name
SelectByName(rows, name) == SelectSeq(rows, LAMBDA r : r.Name = name)

\* The shape shared by the five patch functions: the table t of the
\* connection's view becomes `after`; `shownBefore` and `shownAfter` are the
\* two printed result sets.
Patch(t, after, titleBefore, shownBefore, shownAfter) ==
  /\ db' = [db EXCEPT ![t] = after]
  /\ out' = out \o << [title |-> titleBefore, rows |-> shownBefore],
                      [title |-> "AFTER UPDATE", rows |-> shownAfter] >>
  /\ pc' = pc + 1
  /\ UNCHANGED <<run, status, disk>>

updateTwoHandedSwordSpeed ==
  /\ AtOp("updateTwoHandedSwordSpeed")
  /\ LET after == UpdateTypeSpeed(db["Type"], Program[pc].arg) IN
       Patch("Type", after,
             "BEFORE TWO-HANDED SWORD TYPE SPEED UPDATE",
             SelectByName(db["Type"], "Two-Handed Sword"),
             SelectByName(after, "Two-Handed Sword"))

updateEbonyOneHandedAxe ==
  /\ AtOp("updateEbonyOneHandedAxe")
  /\ LET after == UpdateMaterialDamage(db["Material"], Program[pc].arg) IN
       Patch("Material", after,
             "BEFORE EBONY ONE-HANDED AXE MATERIAL DAMAGE UPDATE",
             SelectEbonyByDamage(db["Material"], 15),
             SelectEbonyByDamage(after, 14))

updateEbonyOneHandedMace ==
  /\ AtOp("updateEbonyOneHandedMace")
  /\ LET after == UpdateMaterialDamage(db["Material"], Program[pc].arg) IN
       Patch("Material", after,
             "BEFORE EBONY ONE-HANDED MACE MATERIAL DAMAGE UPDATE",
             SelectEbonyByDamage(db["Material"], 16),
             SelectEbonyByDamage(after, 15))

deleteIronBow ==
  /\ AtOp("deleteIronBow")
  /\ LET after == DeleteWeaponByName(db["Weapon"], Program[pc].arg) IN
       Patch("Weapon", after,
             "BEFORE IRON BOW DELETIONS",
             SelectByName(db["Weapon"], "Iron Bow"),
             SelectByName(after, "Iron Bow"))

\* The heading printed by deleteSteelBow is also "BEFORE IRON BOW DELETIONS".
deleteSteelBow ==
  /\ AtOp("deleteSteelBow")
  /\ LET after == DeleteWeaponByName(db["Weapon"], Program[pc].arg) IN
       Patch("Weapon", after,
             "BEFORE IRON BOW DELETIONS",
             SelectByName(db["Weapon"], "Steel Bow"),
             SelectByName(after, "Steel Bow"))

-----------------------------------------------------------------------------
(* Queries.  Each reads the connection's view and prints one result set.   *)

Report(title, rows) ==
  /\ out' = Display(title, rows)
  /\ pc' = pc + 1
  /\ UNCHANGED <<run, status, disk, db>>

\* Variant: the filter is applied to the Type column.
IronWeaponsByType(store) ==
  Map(SelectSeq(store["Weapon"], LAMBDA r : r.Type = "Iron"),
      LAMBDA r : <<r.Name>>)

\* SELECT Name FROM Weapon WHERE Material = 'Iron'
IronWeapons(store) ==
  Map(SelectSeq(store["Weapon"], LAMBDA r : r.Material = "Iron"),
      LAMBDA r : <<r.Name>>)

\* Variant: the comparison is Speed > 0.75.
BowsBySpeedStrict(store) ==
  Map(SelectSeq(store["Material"], LAMBDA r : r.Speed # None /\ r.Speed[1] > 7500),
      LAMBDA r : <<r.Name>>)

\* SELECT Name FROM Material WHERE Speed >= 0.75 (a NULL Speed never compares true)
BowsBySpeed(store) ==
  Map(SelectSeq(store["Material"], LAMBDA r : r.Speed # None /\ r.Speed[1] >= 7500),
      LAMBDA r : <<r.Name>>)

\* SELECT * FROM EnchantedWith
EnchantedWeapons(store) == store["EnchantedWith"]

\* Variant: the comparison is Level >= 20.
ForgeabilityPerkLevelInclusive(store) ==
  Map(SelectSeq(store["Forgeability"], LAMBDA r : r.Level >= 20),
      LAMBDA r : <<r.Perk_Name>>)

\* SELECT Perk_Name FROM Forgeability WHERE Level > 20
ForgeabilityPerkLevel(store) ==
  Map(SelectSeq(store["Forgeability"], LAMBDA r : r.Level > 20),
      LAMBDA r : <<r.Perk_Name>>)

\* SELECT Name FROM Weapon WHERE Material = 'Dwarven' AND Type = type
DwarvenOfType(store, type) ==
  Map(SelectSeq(store["Weapon"], LAMBDA r : r.Material = "Dwarven" /\ r.Type = type),
      LAMBDA r : <<r.Name>>)

\* The two axe queries, printed one after the other under one heading.
AllDwarvenAxes(store) ==
  DwarvenOfType(store, "One-Handed Axe") \o DwarvenOfType(store, "Two-Handed Axe")

\* SELECT Name, Effect FROM Enchanting WHERE Weapon = 'Two-Handed Mace'
EnchantmentsForWarhammers(store) ==
  Map(SelectSeq(store["Enchanting"], LAMBDA r : r.Weapon = "Two-Handed Mace"),
      LAMBDA r : <<r.Name, r.Effect>>)

\* SELECT Damage, Weight, Name FROM Material WHERE Damage > 13
HighestDamage(store) ==
  Map(SelectSeq(store["Material"], LAMBDA r : r.Damage > 13),
      LAMBDA r : <<r.Damage, r.Weight, r.Name>>)

selectIronWeapons ==
  /\ AtOp("selectIronWeapons")
  /\ Report("List Of All Iron Weapons:", IronWeapons(db))

selectBowsBySpeed ==
  /\ AtOp("selectBowsBySpeed")
  /\ Report("List Of All Bows That Have a Speed of 0.75 of Above:", BowsBySpeed(db))

selectEnchantedWeapons ==
  /\ AtOp("selectEnchantedWeapons")
  /\ Report("List Of All Enchanted Items in the Database:", EnchantedWeapons(db))

selectForgeabilityPerkLevel ==
  /\ AtOp("selectForgeabilityPerkLevel")
  /\ Report("List Of Forging Perks that Require a Level Higher Than 20:",
            ForgeabilityPerkLevel(db))

selectAllDwarvenAxes ==
  /\ AtOp("selectAllDwarvenAxes")
  /\ Report("List Of Dwarven Axes:", AllDwarvenAxes(db))

selectEnchantmentsForWarhammers ==
  /\ AtOp("selectEnchantmentsForWarhammers")
  /\ Report("List Of All Available Enchantments for Warhammers/Two-Handed Maces:",
            EnchantmentsForWarhammers(db))

selectHighestDamage ==
  /\ AtOp("selectHighestDamage")
  /\ Report("List Of The Highest Damage Weapons, Alongside Their Weight and Material:",
            HighestDamage(db))

-----------------------------------------------------------------------------
(* Process start and end.                                                  *)

\* End of the script: the interpreter exits, the connection is closed
\* without a commit and its open transaction is rolled back.
ProcessExit ==
  /\ status = "running"
  /\ pc = Len(Program) + 1
  /\ status' = "exited"
  /\ db' = disk
  /\ UNCHANGED <<run, pc, disk, out>>

\* The script is started again on the same file:
\* connect = sqlite3.connect("SkyrimWeaponsDB.db").
Connect ==
  /\ status \in {"exited", "fault"}
  /\ run < MaxRuns
  /\ run' = run + 1
  /\ pc' = 1
  /\ status' = "running"
  /\ db' = disk
  /\ out' = <<>>
  /\ UNCHANGED disk

\* First run: the database file does not exist and sqlite3.connect creates it.
Init ==
  /\ run = 1
  /\ pc = 1
  /\ status = "running"
  /\ disk = EmptyStore
  /\ db = EmptyStore
  /\ out = <<>>

Next ==
  \/ CreateTable
  \/ createWeapon
  \/ createType
  \/ createMaterial
  \/ createForgeability
  \/ createEnchanting
  \/ createEnchantedWith
  \/ updateTwoHandedSwordSpeed
  \/ updateEbonyOneHandedAxe
  \/ updateEbonyOneHandedMace
  \/ deleteIronBow
  \/ deleteSteelBow
  \/ selectIronWeapons
  \/ selectBowsBySpeed
  \/ selectEnchantedWeapons
  \/ selectForgeabilityPerkLevel
  \/ selectAllDwarvenAxes
  \/ selectEnchantmentsForWarhammers
  \/ selectHighestDamage
  \/ ProcessExit
  \/ Connect

Spec == Init /\ [][Next]_vars

-----------------------------------------------------------------------------
(* Positions in the run.                                                   *)

\* The statement op has been executed by the current run.
Done(op) == \E i \in 1..(pc - 1) : Program[i].op = op

\* Every statement before the patches has been executed by the current run.
SeedDone ==
  \A i \in 1..Len(Program) : Program[i].batch \notin {"patch", "report"} => i < pc

PatchesDone == SeedDone /\ \A i \in 1..Len(Patches) : Done(Patches[i].op)

\* The result sets the current run printed under a heading.
Shown(title) == {out[i].rows : i \in {k \in 1..Len(out) : out[k].title = title}}

Names(rows) == {rows[i][1] : i \in 1..Len(rows)}

EbonyDamages(store) ==
  Map(SelectByName(store["Material"], "Ebony"), LAMBDA r : r.Damage)

-----------------------------------------------------------------------------
(* C1 *)

\* C1 as stated: after all five patches of a run, the connection sees no
\* Material row named Ebony with Damage 15 and none with Damage 16.
C1_NoEbony15Or16 ==
  (status = "running" /\ PatchesDone) =>
     /\ SelectEbonyByDamage(db["Material"], 15) = <<>>
     /\ SelectEbonyByDamage(db["Material"], 16) = <<>>

\* C1 amended: after all five patches of a run, the connection sees no Ebony
\* row with Damage 16 and exactly one Ebony row with Damage 15, the one-handed
\* mace row (Weight 19, Value 1000) that the second correction moved from 16;
\* the axe row that had 15 now has 14.
C1_EbonyAfterPatches ==
  (status = "running" /\ PatchesDone) =>
     /\ SelectEbonyByDamage(db["Material"], 16) = <<>>
     /\ SelectEbonyByDamage(db["Material"], 15)
          = << MaterialRow(<<"Ebony", 190, 15, 1000, None, Some("Ebony Smithing")>>) >>
     /\ SelectEbonyByDamage(db["Material"], 14)
          = << MaterialRow(<<"Ebony", 170, 14, 865, None, Some("Ebony Smithing")>>) >>
     /\ EbonyDamages(db) = <<13, 14, 15, 10, 22, 23, 25, 17>>

C1_Witness ==
  /\ status = "running"
  /\ PatchesDone
  /\ run = 1
  /\ Len(SelectEbonyByDamage(db["Material"], 15)) = 1

-----------------------------------------------------------------------------
(* C2 *)

HasWeaponNamed(store, name) == SelectByName(Rows(store, "Weapon"), name) # <<>>

\* C2: once both delete patches have run, the Weapon table seen by the run's
\* connection has no row named Iron Bow or Steel Bow, up to the end of the
\* report phase.
C2_BowsGoneForConnection ==
  (status = "running" /\ Done("deleteIronBow") /\ Done("deleteSteelBow")) =>
     /\ ~HasWeaponNamed(db, "Iron Bow")
     /\ ~HasWeaponNamed(db, "Steel Bow")

\* All reports printed; both bows were shown before their deletion.
C2_Witness ==
  /\ status = "running"
  /\ pc = Len(Program) + 1
  /\ \E i, j \in 1..Len(out) :
        /\ i < j
        /\ out[i].title = "BEFORE IRON BOW DELETIONS"
        /\ out[j].title = "BEFORE IRON BOW DELETIONS"
        /\ Len(out[i].rows) = 1 /\ out[i].rows[1].Name = "Iron Bow"
        /\ Len(out[j].rows) = 1 /\ out[j].rows[1].Name = "Steel Bow"
  /\ ~HasWeaponNamed(db, "Iron Bow")

-----------------------------------------------------------------------------
(* C3 *)

UniqueIDs(rows) ==
  \A i, j \in 1..Len(rows) : rows[i].ID = rows[j].ID => i = j

\* C3: no two Weapon rows ever have the same ID, on disk or through the
\* connection; the first run never faults, and when it has finished seeding
\* the table holds the 90 inserted rows.
C3_WeaponIDsUnique ==
  /\ UniqueIDs(Rows(db, "Weapon"))
  /\ UniqueIDs(Rows(disk, "Weapon"))
  /\ run = 1 => status # "fault"
  /\ (run = 1 /\ status = "running" /\ SeedDone /\ ~Done("deleteIronBow")) =>
        /\ Len(db["Weapon"]) = 90
        /\ Cardinality({db["Weapon"][i].ID : i \in 1..Len(db["Weapon"])}) = 90

C3_Witness ==
  /\ run = 1
  /\ status = "running"
  /\ SeedDone
  /\ Len(db["Weapon"]) = 90
  /\ Len(disk["Weapon"]) = 90

-----------------------------------------------------------------------------
(* C4 *)

\* C4: a run against the store left by an earlier run executes only the
\* CREATE TABLE, createType and createMaterial statements, stops with a fault
\* at the first createWeapon (ID 00012eb7, Iron Sword), never reaches a patch
\* or a report, and leaves the Weapon table as it found it.
C4_SecondRunFaultsAtFirstWeapon ==
  /\ [](run >= 2 =>
          /\ status # "exited"
          /\ out = <<>>
          /\ \A i \in 1..(pc - 1) :
                Program[i].op \in {"CREATE TABLE", "createType", "createMaterial"}
          /\ status = "fault" =>
                /\ Program[pc].op = "createWeapon"
                /\ Program[pc].arg = WeaponSeed[1]
                /\ Program[pc].arg[1] = "00012eb7"
                /\ Program[pc].arg[2] = "Iron Sword"
                /\ \A i \in 1..(pc - 1) : Program[i].op # "createWeapon")
  /\ [][run >= 2 =>
          /\ Rows(disk', "Weapon") = Rows(disk, "Weapon")
          /\ Rows(db', "Weapon") = Rows(db, "Weapon")]_vars

C4_Witness ==
  /\ run = 2
  /\ status = "fault"
  /\ Len(disk["Weapon"]) = 90
  /\ Len(disk["Type"]) = 16

-----------------------------------------------------------------------------
(* C5 *)

\* C5: report 1 prints exactly the seven Iron weapon names, without Iron Bow.
C5_IronWeaponsReport ==
  \A rows \in Shown("List Of All Iron Weapons:") :
     /\ Len(rows) = 7
     /\ Names(rows) = {"Iron Sword", "Iron War Axe", "Iron Mace", "Iron Dagger",
                       "Iron Greatsword", "Iron Battleaxe", "Iron Warhammer"}
     /\ "Iron Bow" \notin Names(rows)

C5_Witness ==
  /\ Shown("List Of All Iron Weapons:") # {}
  /\ Done("selectIronWeapons")
  /\ Done("deleteIronBow")

-----------------------------------------------------------------------------
(* C6 *)

LowPerks(store) ==
  {<<r.Perk_Name, r.Level>> :
     r \in {store["Forgeability"][i] : i \in {k \in 1..Len(store["Forgeability"]) :
                                              store["Forgeability"][k].Level <= 20}}}

\* The query applied to a table that holds the single perk level l.
PerksAtLevel(l) ==
  ForgeabilityPerkLevel([Forgeability |-> <<ForgeabilityRow(<<l, "Perk">>)>>])

\* C6: report 4 prints exactly Glass Smithing, Ebony Smithing, Daedric
\* Smithing and Dragon Armor; the five perks of level 20 or less are left
\* out, and the comparison is strict: a perk of level 20 is not selected, one
\* of level 21 is.
C6_ForgeabilityReport ==
  \A rows \in Shown("List Of Forging Perks that Require a Level Higher Than 20:") :
     /\ Len(rows) = 4
     /\ Names(rows) = {"Glass Smithing", "Ebony Smithing", "Daedric Smithing",
                       "Dragon Armor"}
     /\ LowPerks(db) = {<<"Steel Smithing", 2>>, <<"Orcish Smithing", 6>>,
                        <<"Dwarven Smithing", 12>>, <<"Advanced Armors", 18>>,
                        <<"Elven Smithing", 19>>}
     /\ \A p \in LowPerks(db) : p[1] \notin Names(rows)
     /\ \A l \in 0..101 : (PerksAtLevel(l) # <<>>) <=> (l > 20)

C6_Witness ==
  /\ Shown("List Of Forging Perks that Require a Level Higher Than 20:") # {}
  /\ Len(db["Forgeability"]) = 9

-----------------------------------------------------------------------------
(* C7 *)

\* C7: a CREATE TABLE IF NOT EXISTS statement executed when its table exists
\* raises no fault, adds no table and leaves every row of every table as it
\* was, on disk and through the connection.
C7_SchemaCreationIdempotent ==
  [][(AtOp("CREATE TABLE") /\ Program[pc].arg[1] \in DOMAIN db) =>
        /\ status' = "running"
        /\ pc' = pc + 1
        /\ DOMAIN db' = DOMAIN db
        /\ DOMAIN disk' = DOMAIN disk
        /\ db' = db
        /\ disk' = disk]_vars

\* The schema statements of a re-run have all executed on a populated store.
C7_Witness ==
  /\ run = 2
  /\ status = "running"
  /\ pc = Len(SchemaDDL) + 1
  /\ DOMAIN disk = {SchemaDDL[i] : i \in 1..Len(SchemaDDL)}
  /\ Len(disk["Weapon"]) = 90
  /\ Len(disk["Type"]) = 8
  /\ Len(disk["Material"]) = 88

-----------------------------------------------------------------------------
(* C8 *)

TypeNames(store) == {Rows(store, "Type")[i].Name : i \in 1..Len(Rows(store, "Type"))}

\* C8: once seeding is complete, and still after patching, every Weapon
\* row's Type is the Name of some Type row.
C8_WeaponTypeReferencesType ==
  (status = "running" /\ SeedDone) =>
     \A i \in 1..Len(db["Weapon"]) : db["Weapon"][i].Type \in TypeNames(db)

-----------------------------------------------------------------------------
(* C9 *)

MaterialNames(store) ==
  {Rows(store, "Material")[i].Name : i \in 1..Len(Rows(store, "Material"))}

WeaponMaterialsExist(store) ==
  \A i \in 1..Len(Rows(store, "Weapon")) :
     Rows(store, "Weapon")[i].Material \in MaterialNames(store)

\* C9: in every state, every Weapon row's Material is the Name of at least
\* one Material row, on disk and through the connection; and no patch step
\* removes or renames a Material row.
C9_WeaponMaterialReferencesMaterial ==
  /\ [](WeaponMaterialsExist(db) /\ WeaponMaterialsExist(disk))
  /\ [][(status = "running" /\ pc \in 1..Len(Program) /\ Program[pc].batch = "patch") =>
          Map(db'["Material"], LAMBDA r : r.Name) = Map(db["Material"], LAMBDA r : r.Name)]_vars

\* Weapons of the base data and of both batches are in, bows included.
C9_Witness ==
  /\ status = "running"
  /\ \E i \in 1..Len(Rows(db, "Weapon")) : db["Weapon"][i].Material = "Dragonbone"
  /\ \E i \in 1..Len(Rows(db, "Weapon")) : db["Weapon"][i].Material = "Stalhrim"
  /\ \E i \in 1..Len(Rows(db, "Weapon")) : db["Weapon"][i].Material = "Hunting"
  /\ Done("deleteSteelBow")

-----------------------------------------------------------------------------
(* C10 *)

CreateOps ==
  {"createWeapon", "createType", "createMaterial", "createForgeability",
   "createEnchanting", "createEnchantedWith"}

\* Position of a statement in the order schema, base data, Dragonborn,
\* Dawnguard, the five patches one by one, reports.
OrderRank(stmt) ==
  CASE stmt.op = "CREATE TABLE" -> 1
    [] stmt.op \in CreateOps /\ stmt.batch = "base" -> 2
    [] stmt.op \in CreateOps /\ stmt.batch = "Dragonborn" -> 3
    [] stmt.op \in CreateOps /\ stmt.batch = "Dawnguard" -> 4
    [] stmt.op = "updateTwoHandedSwordSpeed" -> 5
    [] stmt.op = "updateEbonyOneHandedAxe" -> 6
    [] stmt.op = "updateEbonyOneHandedMace" -> 7
    [] stmt.op = "deleteIronBow" -> 8
    [] stmt.op = "deleteSteelBow" -> 9
    [] OTHER -> 10

Titles == Map(out, LAMBDA e : e.title)

\* C10: a run executes its statements one at a time in program order, and
\* that order never goes back from a later phase to an earlier one: schema,
\* base seed, Dragonborn batch, Dawnguard batch, then the patches Type speed,
\* Ebony 15->14, Ebony 16->15, delete Iron Bow, delete Steel Bow, then the
\* reports.  The printed headings of a complete run appear in that order.
C10_SequentialOrder ==
  /\ [][/\ (status = "running" /\ status' = "running" /\ run' = run) =>
             /\ pc' = pc + 1
             /\ pc' <= Len(Program) =>
                   OrderRank(Program[pc]) <= OrderRank(Program[pc'])
             /\ (pc' <= Len(Program) /\ OrderRank(Program[pc]) \in 5..9) =>
                   OrderRank(Program[pc]) < OrderRank(Program[pc'])
        /\ run' # run => pc' = 1]_vars
  /\ []((status = "running" /\ pc = Len(Program) + 1) =>
          /\ {OrderRank(Program[i]) : i \in 1..Len(Program)} = 1..10
          /\ Titles =
               << "BEFORE TWO-HANDED SWORD TYPE SPEED UPDATE", "AFTER UPDATE",
                  "BEFORE EBONY ONE-HANDED AXE MATERIAL DAMAGE UPDATE", "AFTER UPDATE",
                  "BEFORE EBONY ONE-HANDED MACE MATERIAL DAMAGE UPDATE", "AFTER UPDATE",
                  "BEFORE IRON BOW DELETIONS", "AFTER UPDATE",
                  "BEFORE IRON BOW DELETIONS", "AFTER UPDATE",
                  "List Of All Iron Weapons:",
                  "List Of All Bows That Have a Speed of 0.75 of Above:",
                  "List Of All Enchanted Items in the Database:",
                  "List Of Forging Perks that Require a Level Higher Than 20:",
                  "List Of Dwarven Axes:",
                  "List Of All Available Enchantments for Warhammers/Two-Handed Maces:",
                  "List Of The Highest Damage Weapons, Alongside Their Weight and Material:" >>)

C10_Witness ==
  /\ status = "running"
  /\ pc = Len(Program) + 1
  /\ Len(out) = 17
  /\ Len(db["Material"]) = 88

-----------------------------------------------------------------------------
(* C11 *)

\* The two result sets a patch step prints: before and after the mutation.
ShownBefore == out'[Len(out) + 1].rows

ShownAfter == out'[Len(out) + 2].rows

PatchStep(op) == AtOp(op) /\ pc' = pc + 1

\* C11: every patch prints, as "before", the rows that match its predicate in
\* the state right before the mutation and, as "after", those same rows as
\* the mutation left them and no other row: one row for each of the three
\* updates (the "after" display of the 16->15 correction holds the mace row
\* only, not the axe row) and no row for each of the two deletions.
C11_BeforeAfterDisplays ==
  [][/\ (\E op \in {"updateTwoHandedSwordSpeed", "updateEbonyOneHandedAxe",
                    "updateEbonyOneHandedMace", "deleteIronBow", "deleteSteelBow"} :
            PatchStep(op)) => Len(out') = Len(out) + 2
     /\ PatchStep("updateTwoHandedSwordSpeed") =>
          /\ ShownBefore = SelectSeq(db["Type"], LAMBDA r : r.Name = "Two-Handed Sword")
          /\ Len(ShownBefore) = 1
          /\ ShownBefore[1].Speed = Some(70)
          /\ ShownAfter = << [ShownBefore[1] EXCEPT !.Speed = Some(75)] >>
     /\ PatchStep("updateEbonyOneHandedAxe") =>
          /\ ShownBefore = SelectSeq(db["Material"],
                                     LAMBDA r : r.Name = "Ebony" /\ r.Damage = 15)
          /\ Len(ShownBefore) = 1
          /\ ShownBefore[1].Weight = 170
          /\ ShownAfter = << [ShownBefore[1] EXCEPT !.Damage = 14] >>
     /\ PatchStep("updateEbonyOneHandedMace") =>
          /\ ShownBefore = SelectSeq(db["Material"],
                                     LAMBDA r : r.Name = "Ebony" /\ r.Damage = 16)
          /\ Len(ShownBefore) = 1
          /\ ShownBefore[1].Weight = 190
          /\ ShownAfter = << [ShownBefore[1] EXCEPT !.Damage = 15] >>
          /\ \A i \in 1..Len(ShownAfter) : ShownAfter[i].Weight # 170
     /\ PatchStep("deleteIronBow") =>
          /\ ShownBefore = SelectSeq(db["Weapon"], LAMBDA r : r.Name = "Iron Bow")
          /\ Len(ShownBefore) = 1
          /\ ShownAfter = <<>>
     /\ PatchStep("deleteSteelBow") =>
          /\ ShownBefore = SelectSeq(db["Weapon"], LAMBDA r : r.Name = "Steel Bow")
          /\ Len(ShownBefore) = 1
          /\ ShownAfter = <<>>]_vars

\* All five patches have printed; the sixth result set is the "after"
\* display of the 16->15 correction.
C11_Witness ==
  /\ status = "running"
  /\ PatchesDone
  /\ Len(out) >= 10
  /\ out[6].title = "AFTER UPDATE"
  /\ Len(out[6].rows) = 1
  /\ out[6].rows[1].Weight = 190
  /\ out[6].rows[1].Damage = 15
  /\ out[8].rows = <<>>
  /\ out[10].rows = <<>>

-----------------------------------------------------------------------------
(* C12 *)

\* The parameter tuples of the two Ebony corrections, as bound at their calls.
PatchArg(op) == Patches[CHOOSE i \in 1..Len(Patches) : Patches[i].op = op].arg

AxeUpdate == PatchArg("updateEbonyOneHandedAxe")

MaceUpdate == PatchArg("updateEbonyOneHandedMace")

\* The two corrections applied to a Material table in the scripted order.
AxeThenMace(rows) ==
  UpdateMaterialDamage(UpdateMaterialDamage(rows, AxeUpdate), MaceUpdate)

\* The two corrections applied in the opposite order.
MaceThenAxe(rows) ==
  UpdateMaterialDamage(UpdateMaterialDamage(rows, MaceUpdate), AxeUpdate)

\* The seeded Material table is in place and no correction has run yet.
BeforeEbonyCorrections ==
  /\ status = "running"
  /\ SeedDone
  /\ ~Done("updateEbonyOneHandedAxe")
  /\ ~Done("updateEbonyOneHandedMace")

\* The Material table once the base data and both batches are inserted.
SeededMaterial ==
  Map(MaterialSeed \o DragonbornMaterialSeed \o DawnguardMaterialSeed, MaterialRow)

DamagesOf(rows, name) == Map(SelectByName(rows, name), LAMBDA r : r.Damage)

\* C12 as stated: applied to the seeded Material table, the two Ebony
\* corrections give the same rows in either order.
C12_CorrectionsCommute ==
  BeforeEbonyCorrections => AxeThenMace(db["Material"]) = MaceThenAxe(db["Material"])

\* C12 amended: the two corrections do not commute on the seeded table.  In
\* the scripted order the axe row ends at 14 and the mace row at 15; in the
\* opposite order the mace row is first moved to 15 and then caught by the
\* 15 -> 14 correction, so both end at 14.  The two results agree on every
\* row but the mace row, and the run produces the scripted-order result.
C12_CorrectionsOrderDependent ==
  /\ BeforeEbonyCorrections =>
       /\ db["Material"] = SeededMaterial
       /\ DamagesOf(AxeThenMace(db["Material"]), "Ebony") = <<13, 14, 15, 10, 22, 23, 25, 17>>
       /\ DamagesOf(MaceThenAxe(db["Material"]), "Ebony") = <<13, 14, 14, 10, 22, 23, 25, 17>>
       /\ \A i \in 1..Len(db["Material"]) :
             AxeThenMace(db["Material"])[i] # MaceThenAxe(db["Material"])[i]
                => /\ db["Material"][i].Name = "Ebony"
                   /\ db["Material"][i].Damage = 16
                   /\ db["Material"][i].Weight = 190
       /\ \A i \in 1..Len(db["Material"]) :
             db["Material"][i].Name # "Ebony"
                => /\ AxeThenMace(db["Material"])[i] = db["Material"][i]
                   /\ MaceThenAxe(db["Material"])[i] = db["Material"][i]
  /\ (status = "running" /\ Done("updateEbonyOneHandedMace")) =>
       /\ DamagesOf(db["Material"], "Ebony") = <<13, 14, 15, 10, 22, 23, 25, 17>>
       /\ db["Material"] = AxeThenMace(SeededMaterial)
       /\ db["Material"] # MaceThenAxe(SeededMaterial)

\* Both corrections have run on a table that held the 15 and the 16 row.
C12_Witness ==
  /\ status = "running"
  /\ Done("updateEbonyOneHandedAxe")
  /\ Done("updateEbonyOneHandedMace")
  /\ DamagesOf(SeededMaterial, "Ebony") = <<13, 15, 16, 10, 22, 23, 25, 17>>
  /\ DamagesOf(db["Material"], "Ebony") = <<13, 14, 15, 10, 22, 23, 25, 17>>

-----------------------------------------------------------------------------
(* C13 *)

\* Indices of the Material rows a step changes in the connection's view.
ChangedMaterial ==
  {i \in 1..Len(db["Material"]) : db'["Material"][i] # db["Material"][i]}

\* Number of times a row's Damage differs along seeded -> after the first
\* correction -> after both, for the scripted order.
TimesMoved(i) ==
  LET m0 == SeededMaterial
      m1 == UpdateMaterialDamage(m0, AxeUpdate)
      m2 == UpdateMaterialDamage(m1, MaceUpdate)
  IN  (IF m1[i].Damage # m0[i].Damage THEN 1 ELSE 0)
        + (IF m2[i].Damage # m1[i].Damage THEN 1 ELSE 0)

\* C13: in the scripted order the first correction changes exactly one
\* Material row (the Ebony one-handed axe row, 15 -> 14), the second changes
\* exactly one other row (the Ebony one-handed mace row, 16 -> 15), and no row
\* is changed by both.
C13_EachRowMovedAtMostOnce ==
  /\ [][/\ PatchStep("updateEbonyOneHandedAxe") =>
             /\ Len(db'["Material"]) = Len(db["Material"])
             /\ Cardinality(ChangedMaterial) = 1
             /\ \A i \in ChangedMaterial :
                   /\ db["Material"][i].Name = "Ebony"
                   /\ db["Material"][i].Weight = 170
                   /\ db["Material"][i].Damage = 15
                   /\ db'["Material"][i] = [db["Material"][i] EXCEPT !.Damage = 14]
        /\ PatchStep("updateEbonyOneHandedMace") =>
             /\ Len(db'["Material"]) = Len(db["Material"])
             /\ Cardinality(ChangedMaterial) = 1
             /\ \A i \in ChangedMaterial :
                   /\ db["Material"][i].Name = "Ebony"
                   /\ db["Material"][i].Weight = 190
                   /\ db["Material"][i].Damage = 16
                   /\ db'["Material"][i] = [db["Material"][i] EXCEPT !.Damage = 15]
                   /\ SeededMaterial[i] = db["Material"][i]]_vars
  /\ []((status = "running" /\ Done("updateEbonyOneHandedMace")) =>
          /\ db["Material"] = AxeThenMace(SeededMaterial)
          /\ \A i \in 1..Len(SeededMaterial) : TimesMoved(i) <= 1
          /\ Cardinality({i \in 1..Len(SeededMaterial) : TimesMoved(i) = 1}) = 2)

C13_Witness ==
  /\ status = "running"
  /\ Done("updateEbonyOneHandedMace")
  /\ \E i, j \in 1..Len(db["Material"]) :
        /\ i # j
        /\ SeededMaterial[i].Damage = 15 /\ db["Material"][i].Damage = 14
        /\ SeededMaterial[j].Damage = 16 /\ db["Material"][j].Damage = 15

-----------------------------------------------------------------------------
(* C14 *)

\* The query applied to a table that holds a single row of the given Speed.
BowsAtSpeed(speed) ==
  BowsBySpeed([Material |-> <<MaterialRow(<<"M", 10, 1, 1, speed, None>>)>>])

-----------------------------------------------------------------------------
(* C15 *)

\* C15: every mutating statement is committed before the next statement
\* executes, so the file the process leaves behind holds what the reports
\* observed: Two-Handed Sword Speed 0.75, Ebony axe Damage 14, Ebony mace
\* Damage 15, and no Iron Bow or Steel Bow row.
C15_PatchesCommitted ==
  /\ status = "running" => disk = db
  /\ status = "exited" =>
       /\ \A i \in 1..Len(disk["Type"]) :
             disk["Type"][i].Name = "Two-Handed Sword" => disk["Type"][i].Speed = Some(75)
       /\ DamagesOf(disk["Material"], "Ebony") = <<13, 14, 15, 10, 22, 23, 25, 17>>
       /\ ~HasWeaponNamed(disk, "Iron Bow")
       /\ ~HasWeaponNamed(disk, "Steel Bow")

-----------------------------------------------------------------------------
(* C16 *)

\* The other five tables once the base data and both batches are inserted.
SeededType == Map(TypeSeed, TypeRow)

SeededWeapon ==
  Map(WeaponSeed \o DragonbornWeaponSeed \o DawnguardWeaponSeed, WeaponRow)

SeededForgeability ==
  Map(ForgeabilitySeed \o DragonbornForgeabilitySeed \o DawnguardForgeabilitySeed,
      ForgeabilityRow)

SeededEnchanting == Map(EnchantingSeed, EnchantingRow)

SeededEnchantedWith == Map(EnchantedWithSeed, EnchantedWithRow)

\* Seeding is complete and no patch has run.
BeforePatches ==
  /\ status = "running"
  /\ SeedDone
  /\ \A i \in 1..Len(Patches) : ~Done(Patches[i].op)

\* Material names other than Ebony that have a row of Damage 15 or 16.
NonEbony15Or16(rows) ==
  {rows[i].Name : i \in {k \in 1..Len(rows) :
                           rows[k].Name # "Ebony" /\ rows[k].Damage \in {15, 16}}}

\* C16: in the connection's view the patch phase changes the Speed of the one
\* Type row named Two-Handed Sword, the Damage of two Material rows named
\* Ebony, and removes two Weapon rows; every other row and column of the six
\* tables is as seeded.  The Iron, Glass, Daedric, Stalhrim and Dragonbone
\* rows of Damage 15 or 16 keep their Damage and Weapon loses exactly 2 rows.
C16_PatchFrame ==
  /\ BeforePatches =>
       /\ db["Type"] = SeededType
       /\ db["Material"] = SeededMaterial
       /\ db["Weapon"] = SeededWeapon
  /\ (status = "running" /\ PatchesDone) =>
       /\ DOMAIN db = {SchemaDDL[i] : i \in 1..Len(SchemaDDL)}
       /\ Len(db["Type"]) = Len(SeededType)
       /\ Cardinality({i \in 1..Len(SeededType) : SeededType[i].Name = "Two-Handed Sword"}) = 1
       /\ \A i \in 1..Len(SeededType) :
             db["Type"][i] = IF SeededType[i].Name = "Two-Handed Sword"
                             THEN [SeededType[i] EXCEPT !.Speed = Some(75)]
                             ELSE SeededType[i]
       /\ Len(db["Material"]) = Len(SeededMaterial)
       /\ Cardinality({i \in 1..Len(SeededMaterial) :
                         db["Material"][i] # SeededMaterial[i]}) = 2
       /\ \A i \in 1..Len(SeededMaterial) :
             db["Material"][i] # SeededMaterial[i] =>
                /\ SeededMaterial[i].Name = "Ebony"
                /\ [db["Material"][i] EXCEPT !.Damage = SeededMaterial[i].Damage]
                     = SeededMaterial[i]
       /\ NonEbony15Or16(SeededMaterial)
            = {"Iron", "Glass", "Daedric", "Stalhrim", "Dragonbone"}
       /\ \A i \in 1..Len(SeededMaterial) :
             SeededMaterial[i].Name # "Ebony" => db["Material"][i] = SeededMaterial[i]
       /\ db["Weapon"]
            = SelectSeq(SeededWeapon, LAMBDA r : r.Name \notin {"Iron Bow", "Steel Bow"})
       /\ Len(db["Weapon"]) = Len(SeededWeapon) - 2
       /\ db["Forgeability"] = SeededForgeability
       /\ db["Enchanting"] = SeededEnchanting
       /\ db["EnchantedWith"] = SeededEnchantedWith

C16_Witness ==
  /\ status = "running"
  /\ PatchesDone
  /\ Len(db["Weapon"]) = 88
  /\ \E i \in 1..Len(db["Type"]) : db["Type"][i].Speed = Some(75)
  /\ \E i \in 1..Len(db["Material"]) :
        db["Material"][i].Name = "Iron" /\ db["Material"][i].Damage = 15

-----------------------------------------------------------------------------
(* C17 *)

\* The last n rows of a table.
LastRows(rows, n) == SubSeq(rows, Len(rows) - n + 1, Len(rows))

\* C17: a run that stops with the duplicate-ID fault has already committed
\* one more copy of the 8 Type rows and of the 64 base Material rows, and has
\* left Weapon, Forgeability, Enchanting and EnchantedWith as it found them:
\* when run number r has ended, Type holds 8 * r rows and Material holds
\* 88 + 64 * (r - 1) rows.
C17_AbortedRerunLeavesRows ==
  /\ [](status \in {"exited", "fault"} =>
          /\ Len(disk["Type"]) = Len(TypeSeed) * run
          /\ Len(disk["Material"]) = Len(SeededMaterial) + Len(MaterialSeed) * (run - 1)
          /\ Len(TypeSeed) = 8
          /\ Len(MaterialSeed) = 64
          /\ LastRows(disk["Type"], Len(TypeSeed)) = SeededType
          /\ status = "fault" =>
                /\ run >= 2
                /\ LastRows(disk["Material"], Len(MaterialSeed))
                     = Map(MaterialSeed, MaterialRow)
                /\ \A r \in 1..run :
                      SubSeq(disk["Type"], Len(TypeSeed) * (r - 1) + 1, Len(TypeSeed) * r)
                        = SeededType)
  /\ [][run >= 2 =>
          \A t \in {"Weapon", "Forgeability", "Enchanting", "EnchantedWith"} :
             Rows(disk', t) = Rows(disk, t)]_vars

\* Two re-runs have been aborted.
C17_Witness ==
  /\ run = 3
  /\ status = "fault"
  /\ Len(disk["Type"]) = 24
  /\ Len(disk["Material"]) = 216
  /\ Len(disk["Forgeability"]) = 9

-----------------------------------------------------------------------------
(* C18 *)

\* Number of Forgeability rows that carry a perk name.
PerkRows(store, perk) ==
  Cardinality({j \in 1..Len(Rows(store, "Forgeability")) :
                 store["Forgeability"][j].Perk_Name = perk})

\* Forgeability has one row per perk name and every non-null
\* Material.Forgeability names exactly one of them.
ForgeabilityResolves(store) ==
  /\ \A i, j \in 1..Len(Rows(store, "Forgeability")) :
        store["Forgeability"][i].Perk_Name = store["Forgeability"][j].Perk_Name => i = j
  /\ \A i \in 1..Len(Rows(store, "Material")) :
        store["Material"][i].Forgeability # None =>
           PerkRows(store, store["Material"][i].Forgeability[1]) = 1

\* A Material row names a perk that has no Forgeability row.
DanglingPerk(store) ==
  \E i \in 1..Len(Rows(store, "Material")) :
     /\ store["Material"][i].Forgeability # None
     /\ PerkRows(store, store["Material"][i].Forgeability[1]) = 0

\* C18: once the seed loader has completed (base data and both batches), no
\* two Forgeability rows share a Perk_Name and every non-null
\* Material.Forgeability is the Perk_Name of exactly one Forgeability row, on
\* disk and through the connection, for the rest of the run and in every
\* later run.  While the first run is still seeding, between the materials
\* and the forgeability rows, the reference dangles.
C18_ForgeabilityIsLookup ==
  /\ (run >= 2 \/ SeedDone) =>
        /\ ForgeabilityResolves(db)
        /\ ForgeabilityResolves(disk)
  /\ (run = 1 /\ status = "running" /\ Done("createWeapon") /\ ~Done("createForgeability")) =>
        DanglingPerk(db)

C18_Witness ==
  /\ run = 1
  /\ status = "running"
  /\ SeedDone
  /\ Len(db["Forgeability"]) = 9
  /\ \E i \in 1..Len(db["Material"]) :
        db["Material"][i].Forgeability = Some("Advanced Armors")
  /\ \E i \in 1..Len(db["Material"]) :
        db["Material"][i].Name = "Stalhrim"
          /\ db["Material"][i].Forgeability = Some("Ebony Smithing")

-----------------------------------------------------------------------------
(* C19 *)

\* Every EnchantedWith row names an existing Weapon row by ID and exactly one
\* Enchanting row by Name.
EnchantedWithResolves(store) ==
  \A i \in 1..Len(Rows(store, "EnchantedWith")) :
     /\ \E w \in 1..Len(Rows(store, "Weapon")) :
           store["Weapon"][w].ID = store["EnchantedWith"][i].ID
     /\ Cardinality({e \in 1..Len(Rows(store, "Enchanting")) :
                       store["Enchanting"][e].Name
                         = store["EnchantedWith"][i].EnchantmentName}) = 1

\* C19: from its insertion to the end of the run, the two deletions
\* included, every EnchantedWith row has the ID of an existing Weapon row and
\* the Name of exactly one Enchanting row, through the connection and on disk.
C19_EnchantedWithResolves ==
  /\ EnchantedWithResolves(db)
  /\ EnchantedWithResolves(disk)

\* Both EnchantedWith rows are in and both deletions have run.
C19_Witness ==
  /\ status = "running"
  /\ Done("deleteIronBow")
  /\ Done("deleteSteelBow")
  /\ db["EnchantedWith"] = SeededEnchantedWith
  /\ Len(db["EnchantedWith"]) = 2
  /\ Len(db["Weapon"]) = 88

-----------------------------------------------------------------------------
(* C20 *)

MaterialRowCount(store, name) ==
  Cardinality({i \in 1..Len(Rows(store, "Material")) : store["Material"][i].Name = name})

WeaponCountOfMaterial(store, name) ==
  Cardinality({i \in 1..Len(Rows(store, "Weapon")) : store["Weapon"][i].Material = name})

\* Material names whose number of Material rows differs from the number of
\* Weapon rows of that material.
CountMismatch(store) ==
  {name \in MaterialNames(store)
            \cup {Rows(store, "Weapon")[i].Material : i \in 1..Len(Rows(store, "Weapon"))} :
     MaterialRowCount(store, name) # WeaponCountOfMaterial(store, name)}

\* C20: in the connection's view, after the two deletions every material
\* name has as many Material rows as Weapon rows of that material; between
\* the end of seeding and the first deletion the counts differ exactly for
\* Iron and Steel, which have 8 weapons and 7 Material rows each.
C20_MaterialRowPerWeapon ==
  /\ (status = "running" /\ Done("deleteIronBow") /\ Done("deleteSteelBow")) =>
        CountMismatch(db) = {}
  /\ (status = "running" /\ SeedDone /\ ~Done("deleteIronBow") /\ ~Done("deleteSteelBow")) =>
        /\ CountMismatch(db) = {"Iron", "Steel"}
        /\ \A name \in {"Iron", "Steel"} :
              /\ WeaponCountOfMaterial(db, name) = 8
              /\ MaterialRowCount(db, name) = 7

C20_Witness ==
  /\ status = "running"
  /\ Done("deleteIronBow")
  /\ Done("deleteSteelBow")
  /\ WeaponCountOfMaterial(db, "Iron") = 7
  /\ WeaponCountOfMaterial(db, "Steel") = 7
  /\ MaterialRowCount(db, "Dragonbone") = 8
  /\ MaterialRowCount(db, "Long") = 1

-----------------------------------------------------------------------------
(* C21 *)

\* The EnchantedWith row i of a store pairs a weapon and an enchantment whose
\* type restriction is the weapon's Type.
RespectsTypeRestriction(store, i) ==
  \A w \in 1..Len(Rows(store, "Weapon")), e \in 1..Len(Rows(store, "Enchanting")) :
     (/\ store["Weapon"][w].ID = store["EnchantedWith"][i].ID
      /\ store["Enchanting"][e].Name = store["EnchantedWith"][i].EnchantmentName)
        => store["Weapon"][w].Type = store["Enchanting"][e].Weapon

\* C21: for every EnchantedWith row, the Type of the Weapon row it references
\* equals the Weapon (type restriction) column of the Enchanting row it
\* references.
C21_EnchantmentTypeRestriction ==
  \A i \in 1..Len(Rows(db, "EnchantedWith")) : RespectsTypeRestriction(db, i)

-----------------------------------------------------------------------------
(* C22 *)

\* C22: at any point of a run, no two Weapon rows have the same Type and the
\* same Material.
C22_OneWeaponPerTypeAndMaterial ==
  \A i, j \in 1..Len(Rows(db, "Weapon")) :
     (/\ db["Weapon"][i].Type = db["Weapon"][j].Type
      /\ db["Weapon"][i].Material = db["Weapon"][j].Material) => i = j

=============================================================================
